---- MODULE Spec2Model ----
(***************************************************************************)
(* ape-mbr: the MBR partition table decoder (MBR, PartitionRecord) and the *)
(* partition window (Partition) of src/src/lib.rs, over an underlying      *)
(* embedded_io device (Read + Write + Seek).                               *)
(*                                                                         *)
(* The device is the environment: a fixed-size array of bytes with a       *)
(* cursor.  Each of its calls either succeeds or fails, and a successful   *)
(* read or write may transfer fewer bytes than asked for.                  *)
(*                                                                         *)
(* TLC's integers are 32-bit, so i64 and u64 are modelled I64_BITS wide    *)
(* (two's complement, wrapping), with every partition bound far below      *)
(* I64_MAX, as 2^41 is below 2^63 in the program.                          *)
(***************************************************************************)
EXTENDS Integers, Sequences, FiniteSets, TLC

\* ---------------------------------------------------------------- constants
\* src/src/lib.rs:80-94
RECORD_LEN == 16
RECORD_COUNT == 4
BLOCK_SIZE == 512
RECORDS_START == 446
RELATIVE_SECTOR_OFFSET == 8
TOTAL_SECTORS_OFFSET == 12
SYSTEM_ID_OFFSET == 4
BOOT_FLAG_OFFSET == 0

\* ------------------------------------------------------------------- bounds
\* Width at which i64 / u64 are modelled.
I64_BITS == 16
\* Size of the underlying device, in blocks.
DevSectors == 3
\* Largest caller buffer handed to read / write.
MaxBuf == 2
\* Number of calls made after the table is constructed.
MaxCalls == 4
\* Number of device calls that fail or transfer short of what they could.
MaxFaults == 1

Pow2(n) == 2 ^ n
I64_MAX == Pow2(I64_BITS - 1) - 1
I64_MIN == 0 - Pow2(I64_BITS - 1)
U64_MAX == Pow2(I64_BITS) - 1
DevSize == DevSectors * BLOCK_SIZE

Min(a, b) == IF a < b THEN a ELSE b
Max(a, b) == IF a > b THEN a ELSE b

\* ------------------------------------------------------------ partition type
\* The discriminants of PartitionType (src/src/types.rs:16-122): the bytes
\* for which the derived TryFrom<u8> succeeds.
KnownSystemIds ==
    (0..12) \cup {14, 15, 16, 17, 18, 20, 22, 23, 24, 27, 28, 30, 36, 39, 57,
                  60, 64, 65, 66, 77, 78, 79, 80, 81, 82, 83, 84, 85, 86, 92,
                  97, 99, 100, 101, 102, 105, 112, 116, 117} \cup
    (128..135) \cup {138, 139, 140, 142, 147, 148, 159, 160, 165, 166, 167,
                     168, 169, 171, 175, 183, 184, 187, 188, 190, 191, 193,
                     194, 197, 198, 199, 218, 219, 222, 223, 225, 227, 228,
                     234, 235, 238, 239, 240, 241, 244, 242, 248, 251, 252,
                     253, 254, 255}

\* ------------------------------------------------------------- disk images
\* A record as written on disk: boot indicator, system id, first sector and
\* sector count.
Rec(b, s, r, t) == [boot |-> b, sysid |-> s, rel |-> r, total |-> t]

\* The images the device may hold before the table is constructed.
\*  1: four partitions; the third runs past the end of the device and the
\*     fourth covers the MBR sector itself.
\*  2: empty partitions and other boot indicator bytes.
\*  3: a record whose system id (0x0d) is no PartitionType.
Layouts ==
    << << Rec(128, 1, 1, 1), Rec(0, 6, 2, 1), Rec(0, 11, 2, 3), Rec(1, 131, 0, 1) >>,
       << Rec(0, 0, 0, 0), Rec(128, 12, 1, 2), Rec(0, 238, 1, 1), Rec(127, 255, 2, 0) >>,
       << Rec(128, 1, 1, 1), Rec(0, 6, 2, 1), Rec(0, 13, 1, 1), Rec(0, 0, 0, 0) >> >>

\* Byte i (0 = least significant) of a 32-bit value.
LeByte(v, i) == (v \div Pow2(8 * i)) % 256

\* Bytes outside the decoded fields.
FillByte(a) == (a * 7 + (a \div BLOCK_SIZE) * 13 + 3) % 256

\* Byte at address a of image l.
ImageByte(l, a) ==
    IF a >= RECORDS_START /\ a < RECORDS_START + RECORD_LEN * RECORD_COUNT
    THEN LET i == (a - RECORDS_START) \div RECORD_LEN
             o == (a - RECORDS_START) % RECORD_LEN
             r == Layouts[l][i + 1]
         IN  CASE o = BOOT_FLAG_OFFSET -> r.boot
               [] o = SYSTEM_ID_OFFSET -> r.sysid
               [] o >= RELATIVE_SECTOR_OFFSET /\ o < TOTAL_SECTORS_OFFSET ->
                      LeByte(r.rel, o - RELATIVE_SECTOR_OFFSET)
               [] o >= TOTAL_SECTORS_OFFSET -> LeByte(r.total, o - TOTAL_SECTORS_OFFSET)
               [] OTHER -> FillByte(a)
    ELSE FillByte(a)

VARIABLES
    layout,      \* the image the device held at the start
    written,     \* device bytes written since: address -> byte
    ioPos,       \* the device's cursor
    faults,      \* device calls that failed or transferred short so far
    mbr,         \* "unbuilt", the outcome of MBR::new: "ok", "err", "panic", or "bounds"
    partitions,  \* MBR.partitions
    recBuf,      \* the record region as MBR::new read it: buffer and byte count
    winOpen,     \* a Partition borrows MBR.io
    winSlot,     \* the slot it was obtained for
    start_pos,   \* Partition.start_pos
    end_pos,     \* Partition.end_pos
    pos,         \* Partition.pos
    panicked,    \* the program panicked
    calls,       \* calls made since construction
    last,        \* the last call: its arguments, what it delegated, its result
    rt           \* progress of a write / seek-to-start / read round trip

vars == << layout, written, ioPos, faults, mbr, partitions, recBuf, winOpen, winSlot,
           start_pos, end_pos, pos, panicked, calls, last, rt >>

\* ------------------------------------------------------------------- device
\* The device's byte at address a.
DiskByte(a) == IF a \in DOMAIN written THEN written[a] ELSE ImageByte(layout, a)

\* Bytes the device can transfer for a request of n bytes at cursor c.
DevFull(n, c) == Min(n, Max(DevSize - c, 0))

\* Results of a device call: Ok, or Err while the device may still fail.
DevResults == IF faults < MaxFaults THEN {"ok", "err"} ELSE {"ok"}

\* Byte counts a successful device read / write of n bytes at c may report:
\* all it can, or (a short transfer) nothing, half of it, or all but one.
DevCounts(n, c) ==
    LET full == DevFull(n, c)
    IN  IF faults < MaxFaults
        THEN {k \in 0..full : k \in {0, full \div 2, full - 1, full}}
        ELSE {full}

\* The fault count after a device call that failed or transferred k of n at c.
Faulted(short) == IF short THEN faults + 1 ELSE faults

\* The k bytes the device holds from address c on.
DevData(c, k) == [i \in 1..k |-> DiskByte(c + i - 1)]

\* The device's contents after writing the first k bytes of buf at c.
DevWrite(c, buf, k) ==
    [a \in (DOMAIN written) \cup (c..(c + k - 1)) |->
        IF a >= c /\ a < c + k THEN buf[a - c + 1] ELSE written[a]]

NoCall ==
    [op |-> "none", res |-> "none", val |-> 0, slot |-> 0, origin |-> "none",
     off |-> 0, oldPos |-> 0, req |-> 0, del |-> 0, at |-> 0, cnt |-> 0,
     data |-> << >>, after |-> "none", flag |-> FALSE]

\* What a read follows: a successful GetPartition, a successful seek from the
\* start or from the end, or another call.
Preceding ==
    IF last.res = "ok" /\ last.op = "get_partition" THEN "get_partition"
    ELSE IF last.res = "ok" /\ last.op = "seek" /\ last.origin = "Start"
         THEN "seek_start"
         ELSE IF last.res = "ok" /\ last.op = "seek" /\ last.origin = "End"
              THEN "seek_end" ELSE "other"

NoRt == [stage |-> 0, data |-> << >>]

Init ==
    /\ layout \in 1..Len(Layouts)
    /\ written = [a \in {} |-> 0]
    /\ ioPos = 0
    /\ faults = 0
    /\ mbr = "unbuilt"
    /\ partitions = << >>
    /\ recBuf = [bytes |-> << >>, cnt |-> 0]
    /\ winOpen = FALSE
    /\ winSlot = 0
    /\ start_pos = 0
    /\ end_pos = 0
    /\ pos = 0
    /\ panicked = FALSE
    /\ calls = 0
    /\ last = NoCall
    /\ rt = NoRt


\* ------------------------------------------------------------------ decoding
\* u32::from_le_bytes
FromLeBytes(b) == b[1] + 256 * b[2] + 65536 * b[3] + 16777216 * b[4]

\* Mutant of lba_to_u64: the sector number is taken as the byte offset.
lba_to_u64_Sectors(lba) == lba

\* lba_to_u64
lba_to_u64(lba) == lba * BLOCK_SIZE

\* Mutant of BootFlag: every non-zero indicator counts as bootable.
BootFlag_NonZero(byte) == byte # 0

\* bytes[BOOT_FLAG_OFFSET] == 0x80
BootFlag(byte) == byte = 128

\* PartitionRecord::from_bytes, for a record whose system id converts.
from_bytes(bytes) ==
    [relative_sector |->
         FromLeBytes(SubSeq(bytes, RELATIVE_SECTOR_OFFSET + 1, TOTAL_SECTORS_OFFSET)),
     total_sectors |-> FromLeBytes(SubSeq(bytes, TOTAL_SECTORS_OFFSET + 1, RECORD_LEN)),
     partition_type |-> bytes[SYSTEM_ID_OFFSET + 1],
     boot_flag |-> BootFlag(bytes[BOOT_FLAG_OFFSET + 1])]

\* system_id.try_into() is Ok: otherwise the unwrap() in from_bytes panics.
TypeConverts(bytes) == bytes[SYSTEM_ID_OFFSET + 1] \in KnownSystemIds

\* Mutant of get_start_pos: the sector count is taken as the first sector.
get_start_pos_Count(record) == lba_to_u64(record.total_sectors)

get_start_pos(record) == lba_to_u64(record.relative_sector)

\* Mutant of get_end_pos: the sector count is taken as the last sector.
get_end_pos_Count(record) == lba_to_u64(record.total_sectors)

get_end_pos(record) == lba_to_u64(record.relative_sector) + lba_to_u64(record.total_sectors)

\* ------------------------------------------------- the bounds at full width
\* A u32 or a u64 as a sequence of 16-bit limbs, least significant first.
LimbBase == 65536

U64_LIMBS == 4

Limb(w, i) == IF i <= Len(w) THEN w[i] ELSE 0

\* u32::from_le_bytes
u32_from_le_bytes(b) == << b[1] + 256 * b[2], b[3] + 256 * b[4] >>

\* The carry into limb i of w * m.
RECURSIVE MulCarry(_, _, _)
MulCarry(w, m, i) ==
    IF i = 1 THEN 0
    ELSE (Limb(w, i - 1) * m + MulCarry(w, m, i - 1)) \div LimbBase

\* w * m in n limbs, and whether the product needs more.
WideMul(w, m, n) ==
    [val |-> [i \in 1..n |-> (Limb(w, i) * m + MulCarry(w, m, i)) % LimbBase],
     overflow |-> MulCarry(w, m, n + 1) > 0]

\* The carry into limb i of a + b.
RECURSIVE AddCarry(_, _, _)
AddCarry(a, b, i) ==
    IF i = 1 THEN 0
    ELSE (Limb(a, i - 1) + Limb(b, i - 1) + AddCarry(a, b, i - 1)) \div LimbBase

\* a + b as a u64, and whether the sum needs more.
WideAdd(a, b) ==
    [val |-> [i \in 1..U64_LIMBS |->
                 (Limb(a, i) + Limb(b, i) + AddCarry(a, b, i)) % LimbBase],
     overflow |-> AddCarry(a, b, U64_LIMBS + 1) > 0]

\* The borrow out of limb i - 1 of a - b.
RECURSIVE SubBorrow(_, _, _)
SubBorrow(a, b, i) ==
    IF i = 1 THEN 0
    ELSE IF Limb(a, i - 1) - Limb(b, i - 1) - SubBorrow(a, b, i - 1) < 0 THEN 1 ELSE 0

\* a - b as a u64, and whether it is below zero.
WideSub(a, b) ==
    [val |-> [i \in 1..U64_LIMBS |->
                 (Limb(a, i) - Limb(b, i) - SubBorrow(a, b, i) + LimbBase) % LimbBase],
     overflow |-> SubBorrow(a, b, U64_LIMBS + 1) > 0]

\* Mutant of lba_to_u64_Wide: the product is formed in 32 bits and widened.
lba_to_u64_Wide_U32(lba) ==
    [val |-> WideMul(lba, BLOCK_SIZE, 2).val \o << 0, 0 >>,
     overflow |-> WideMul(lba, BLOCK_SIZE, 2).overflow]

\* lba_to_u64 on a full-width u32: (lba as u64) * BLOCK_SIZE
lba_to_u64_Wide(lba) == WideMul(lba, BLOCK_SIZE, U64_LIMBS)

\* Field bytes the full-width records are built from.
FieldBytes == {0, 128, 255}

FieldSamples == [1..4 -> FieldBytes]

\* from_bytes, get_start_pos, get_end_pos and Partition::len on a record
\* whose relative_sector and total_sectors fields hold sample bytes,
\* applied once, in a run that sizes a record and constructs no table.
RecordBounds ==
    /\ mbr = "unbuilt" /\ last = NoCall
    /\ \E relBytes \in FieldSamples : \E totalBytes \in FieldSamples :
       \E s \in {lba_to_u64_Wide(u32_from_le_bytes(relBytes))} :
       \E t \in {lba_to_u64_Wide(u32_from_le_bytes(totalBytes))} :
       \E e \in {WideAdd(s.val, t.val)} :
       \E l \in {WideSub(e.val, s.val)} :
         mbr' = "bounds" /\ last' = [op |-> "record_bounds", rel |-> relBytes, total |-> totalBytes,
                  start |-> s.val, end |-> e.val, len |-> l.val,
                  overflow |-> s.overflow \/ t.overflow \/ e.overflow \/ l.overflow]
    /\ UNCHANGED << layout, written, ioPos, faults, partitions, recBuf, winOpen,
                    winSlot, start_pos, end_pos, pos, panicked, calls, rt >>

\* PartitionRecord::get_partition_type
get_partition_type(record) == record.partition_type

\* PartitionRecord::is_bootable
is_bootable(record) == record.boot_flag

\* MBR::new's buffer after the device filled its first k bytes: the rest
\* keeps the zeros it was initialised with.
RecordBuffer(k) ==
    [i \in 1..(RECORD_LEN * RECORD_COUNT) |->
        IF i <= k THEN DiskByte(RECORDS_START + i - 1) ELSE 0]

\* The slice of the buffer that holds record i (0-based).
RecordSlice(buffer, i) == SubSeq(buffer, i * RECORD_LEN + 1, i * RECORD_LEN + RECORD_LEN)

\* What MBR::new does with the result of io.read(&mut buffer): Ok(k) is
\* accepted for every k.
ReadAccepted(k) == TRUE

\* ------------------------------------------------------------------ MBR::new
MBRNew ==
    /\ mbr = "unbuilt"
    /\ \E sk \in DevResults :
        IF sk = "err"
        THEN \* io.seek(SeekFrom::Start(RECORDS_START))? failed
             /\ mbr' = "err"
             /\ faults' = faults + 1
             /\ last' = [NoCall EXCEPT !.op = "new", !.res = "err"]
             /\ UNCHANGED << ioPos, partitions, recBuf, panicked >>
        ELSE \E rd \in {"ok", "err"} :
             /\ rd = "err" => faults < MaxFaults
             /\ IF rd = "err"
                THEN \* io.read(&mut buffer)? failed
                     /\ mbr' = "err"
                     /\ faults' = faults + 1
                     /\ ioPos' = RECORDS_START
                     /\ last' = [NoCall EXCEPT !.op = "new", !.res = "err",
                                               !.at = RECORDS_START,
                                               !.req = RECORD_LEN * RECORD_COUNT]
                     /\ UNCHANGED << partitions, recBuf, panicked >>
                ELSE \E k \in DevCounts(RECORD_LEN * RECORD_COUNT, RECORDS_START) :
                     LET buffer == RecordBuffer(k)
                         full == DevFull(RECORD_LEN * RECORD_COUNT, RECORDS_START)
                         res == IF ~ReadAccepted(k) THEN "err"
                                ELSE IF \A i \in 0..(RECORD_COUNT - 1) :
                                            TypeConverts(RecordSlice(buffer, i))
                                     THEN "ok" ELSE "panic"
                     IN  /\ mbr' = res
                         /\ panicked' = (res = "panic")
                         /\ partitions' =
                                IF res = "ok"
                                THEN [i \in 0..(RECORD_COUNT - 1) |->
                                         from_bytes(RecordSlice(buffer, i))]
                                ELSE partitions
                         /\ recBuf' = [bytes |-> buffer, cnt |-> k]
                         /\ ioPos' = RECORDS_START + k
                         /\ faults' = Faulted(k < full)
                         /\ last' = [NoCall EXCEPT !.op = "new", !.res = res,
                                                   !.at = RECORDS_START,
                                                   !.req = RECORD_LEN * RECORD_COUNT,
                                                   !.cnt = k, !.data = buffer]
    /\ UNCHANGED << layout, written, winOpen, winSlot, start_pos, end_pos, pos, calls,
                    rt >>

\* A call can be made: the table exists and the program is running.
Callable == mbr = "ok" /\ ~panicked /\ calls < MaxCalls

\* ------------------------------------------------- MBR::get_partition, drop
\* Mutant of MbrFree: the device handle is shared, not lent.
MbrFree_Shared == TRUE

\* get_partition(&mut self) lends self.io to the Partition it returns
\* (io: &'a mut IO): the MBR can be used again once that Partition is gone.
MbrFree == ~winOpen

\* self.partitions[id as usize]
\* Mutant of Record: the record is decoded again from the device.
Record_Reread(id) == from_bytes(DevData(RECORDS_START + id * RECORD_LEN, RECORD_LEN))

Record(id) == partitions[id]

\* Partition::new: seek the device to start_pos, then pos = 0.
GetPartition(id) ==
    /\ Callable
    /\ MbrFree
    /\ calls' = calls + 1
    /\ LET record == Record(id)
           s == get_start_pos(record)
           e == get_end_pos(record)
       IN \E sk \in DevResults :
            IF sk = "ok"
            THEN /\ ioPos' = s
                 /\ winOpen' = TRUE
                 /\ winSlot' = id
                 /\ start_pos' = s
                 /\ end_pos' = e
                 /\ pos' = 0
                 /\ rt' = [stage |-> 1, data |-> << >>]
                 /\ last' = [NoCall EXCEPT !.op = "get_partition", !.res = "ok",
                                           !.slot = id]
                 /\ UNCHANGED faults
            ELSE /\ faults' = faults + 1
                 /\ rt' = NoRt
                 /\ last' = [NoCall EXCEPT !.op = "get_partition", !.res = "err",
                                           !.slot = id]
                 /\ UNCHANGED << ioPos, winOpen, winSlot, start_pos, end_pos, pos >>
    /\ UNCHANGED << layout, written, mbr, partitions, recBuf, panicked >>

\* MBR::get_partition_type(&self): no device call.
GetPartitionType(id) ==
    /\ Callable
    /\ MbrFree
    /\ calls' = calls + 1
    /\ rt' = NoRt
    /\ last' = [NoCall EXCEPT !.op = "get_partition_type", !.res = "ok", !.slot = id,
                              !.val = get_partition_type(Record(id))]
    /\ UNCHANGED << layout, written, ioPos, faults, mbr, partitions, recBuf, winOpen,
                    winSlot, start_pos, end_pos, pos, panicked >>

\* MBR::is_partition_bootable(&self): no device call.
IsPartitionBootable(id) ==
    /\ Callable
    /\ MbrFree
    /\ calls' = calls + 1
    /\ rt' = NoRt
    /\ last' = [NoCall EXCEPT !.op = "is_partition_bootable", !.res = "ok",
                              !.slot = id, !.flag = is_bootable(Record(id))]
    /\ UNCHANGED << layout, written, ioPos, faults, mbr, partitions, recBuf, winOpen,
                    winSlot, start_pos, end_pos, pos, panicked >>

\* The Partition goes out of scope (no call is made).
DropPartition ==
    /\ mbr = "ok" /\ ~panicked
    /\ winOpen
    /\ UNCHANGED calls
    /\ winOpen' = FALSE
    /\ winSlot' = 0
    /\ start_pos' = 0
    /\ end_pos' = 0
    /\ pos' = 0
    /\ rt' = NoRt
    /\ last' = [NoCall EXCEPT !.op = "drop", !.res = "ok"]
    /\ UNCHANGED << layout, written, ioPos, faults, mbr, partitions, recBuf, panicked >>

\* ------------------------------------------------------------ Partition I/O
\* Partition::len
PartLen == end_pos - start_pos

\* Mutant of Available: end_pos is taken as the last byte of the partition.
Available_Inclusive(len, cur) == len - cur + 1

\* let available = self.len() - self.pos
Available(len, cur) == len - cur

\* Mutant of BufSliceLen: the whole buffer is delegated.
BufSliceLen_Unclamped(n, available) == n

\* buf_slice.len(): buf when it is shorter than available, else
\* buf[..available].
BufSliceLen(n, available) == IF n < available THEN n ELSE available

\* The bytes a caller writes from a buffer of n bytes.
WriteBuf(n) == [i \in 1..n |-> 160 + i]

\* The round trip goes on when a write at a fresh window moved its whole
\* buffer, and when a read of as many bytes follows the seek back to start.
RtAfterWrite(buf, res, k) ==
    IF rt.stage = 1 /\ res = "ok" /\ Len(buf) >= 1 /\ k = Len(buf)
    THEN [stage |-> 2, data |-> buf] ELSE NoRt

RtAfterSeek(origin, off, res) ==
    IF rt.stage = 2 /\ origin = "Start" /\ off = 0 /\ res = "ok"
    THEN [rt EXCEPT !.stage = 3] ELSE NoRt

RtAfterRead(n) ==
    IF rt.stage = 3 /\ n = Len(rt.data) THEN [rt EXCEPT !.stage = 4] ELSE NoRt

\* self.pos += buf_slice.len() as u64, made before the device is called: del
\* is the length of buf_slice, k the bytes the device then transfers.
\* Mutant of PosAfter: the cursor advances by what the device transferred.
PosAfter_Transferred(cur, del, k) == cur + k

PosAfter(cur, del, k) == cur + del

\* Partition::read
Read(n) ==
    /\ Callable
    /\ winOpen
    /\ calls' = calls + 1
    /\ LET available == Available(PartLen, pos)
           del == BufSliceLen(n, available)
       IN /\ rt' = RtAfterRead(n)
          /\ \E rd \in DevResults :
               IF rd = "err"
               THEN /\ pos' = PosAfter(pos, del, 0)
                    /\ faults' = faults + 1
                    /\ last' = [NoCall EXCEPT !.op = "read", !.res = "err",
                                              !.oldPos = pos, !.req = n, !.del = del,
                                              !.at = ioPos, !.after = Preceding]
                    /\ UNCHANGED ioPos
               ELSE \E k \in DevCounts(del, ioPos) :
                    /\ pos' = PosAfter(pos, del, k)
                    /\ ioPos' = ioPos + k
                    /\ faults' = Faulted(k < DevFull(del, ioPos))
                    /\ last' = [NoCall EXCEPT !.op = "read", !.res = "ok", !.val = k,
                                              !.oldPos = pos, !.req = n, !.del = del,
                                              !.at = ioPos, !.cnt = k,
                                              !.data = DevData(ioPos, k),
                                              !.after = Preceding]
    /\ UNCHANGED << layout, written, mbr, partitions, recBuf, winOpen, winSlot, start_pos,
                    end_pos, panicked >>

\* Partition::write
Write(n) ==
    /\ Callable
    /\ winOpen
    /\ calls' = calls + 1
    /\ LET buf == WriteBuf(n)
           available == Available(PartLen, pos)
           del == BufSliceLen(n, available)
       IN \E wr \in DevResults :
               IF wr = "err"
               THEN /\ pos' = PosAfter(pos, del, 0)
                    /\ faults' = faults + 1
                    /\ rt' = RtAfterWrite(buf, "err", 0)
                    /\ last' = [NoCall EXCEPT !.op = "write", !.res = "err",
                                              !.oldPos = pos, !.req = n, !.del = del,
                                              !.at = ioPos]
                    /\ UNCHANGED << ioPos, written >>
               ELSE \E k \in DevCounts(del, ioPos) :
                    /\ pos' = PosAfter(pos, del, k)
                    /\ written' = DevWrite(ioPos, buf, k)
                    /\ ioPos' = ioPos + k
                    /\ faults' = Faulted(k < DevFull(del, ioPos))
                    /\ rt' = RtAfterWrite(buf, "ok", k)
                    /\ last' = [NoCall EXCEPT !.op = "write", !.res = "ok", !.val = k,
                                              !.oldPos = pos, !.req = n, !.del = del,
                                              !.at = ioPos, !.cnt = k,
                                              !.data = SubSeq(buf, 1, k)]
    /\ UNCHANGED << layout, mbr, partitions, recBuf, winOpen, winSlot, start_pos, end_pos,
                    panicked >>

\* Partition::flush
Flush ==
    /\ Callable
    /\ winOpen
    /\ calls' = calls + 1
    /\ rt' = NoRt
    /\ \E fl \in DevResults :
         /\ faults' = Faulted(fl = "err")
         /\ last' = [NoCall EXCEPT !.op = "flush", !.res = fl, !.oldPos = pos]
    /\ UNCHANGED << layout, written, ioPos, mbr, partitions, recBuf, winOpen, winSlot,
                    start_pos, end_pos, pos, panicked >>

\* ------------------------------------------------------------ Partition::seek
\* The value of an i64 addition that wraps.
WrapI64(x) == ((x - I64_MIN) % Pow2(I64_BITS)) + I64_MIN

\* cmp::max(cmp::min(x, len as i64), 0) as u64
Clamp(x, len) == Max(Min(x, len), 0)

\* Mutant of StartTarget: the offset is taken as it comes.
StartTarget_Unclamped(off, len) == off

\* SeekFrom::Start(pos): cmp::min(pos, self.len())
StartTarget(off, len) == Min(off, len)

\* SeekFrom::Current(pos): the sum (pos as i64) + pos.  The pos of the
\* pattern shadows self.pos (cur), so the offset is added to itself.
CurrentSum(off, cur) == off + off

\* SeekFrom::End(pos): the sum (self.len() as i64) + pos
EndSum(off, len) == len + off

\* The i64 sum a seek computes (none for Start).
SeekSum(origin, off, cur, len) ==
    CASE origin = "Start" -> 0
      [] origin = "Current" -> CurrentSum(off, cur)
      [] origin = "End" -> EndSum(off, len)

\* The sum does not fit an i64.
Overflows(x) == x < I64_MIN \/ x > I64_MAX

\* The new self.pos, with a sum that wraps.
SeekTarget(origin, off, cur, len) ==
    IF origin = "Start" THEN StartTarget(off, len)
    ELSE Clamp(WrapI64(SeekSum(origin, off, cur, len)), len)

\* Mutant of AbsPos: the relative position is used as the absolute one.
AbsPos_Untranslated(start, rel) == rel

\* self.start_pos + self.pos
AbsPos(start, rel) == start + rel

\* The offsets callers seek with.
StartOffsets(len) ==
    {0, 1, RECORDS_START, len, U64_MAX} \cup (IF len > 0 THEN {len - 1} ELSE {})

SignedOffsets == {I64_MIN, -1, 0, 1, I64_MAX}

Origins == {"Start", "Current", "End"}

SeekOffsets(origin, len) == IF origin = "Start" THEN StartOffsets(len) ELSE SignedOffsets

Seek(origin, off) ==
    /\ Callable
    /\ winOpen
    /\ calls' = calls + 1
    /\ LET len == PartLen
           call == [NoCall EXCEPT !.op = "seek", !.origin = origin, !.off = off,
                                  !.oldPos = pos]
       IN \/ \* the sum overflows in a build with overflow checks: panic
             /\ Overflows(SeekSum(origin, off, pos, len))
             /\ panicked' = TRUE
             /\ rt' = NoRt
             /\ last' = [call EXCEPT !.res = "panic"]
             /\ UNCHANGED << pos, ioPos, faults >>
          \/ \* no overflow, or a build in which the sum wraps
             /\ pos' = SeekTarget(origin, off, pos, len)
             /\ \E sk \in DevResults :
                  IF sk = "ok"
                  THEN /\ ioPos' = AbsPos(start_pos, pos')
                       /\ rt' = RtAfterSeek(origin, off, "ok")
                       /\ last' = [call EXCEPT !.res = "ok", !.val = pos',
                                               !.at = ioPos']
                       /\ UNCHANGED << faults, panicked >>
                  ELSE /\ faults' = faults + 1
                       /\ rt' = NoRt
                       /\ last' = [call EXCEPT !.res = "err", !.at = ioPos]
                       /\ UNCHANGED << ioPos, panicked >>
    /\ UNCHANGED << layout, written, mbr, partitions, recBuf, winOpen, winSlot, start_pos,
                    end_pos >>

Next ==
    \/ MBRNew
    \/ \E id \in 0..(RECORD_COUNT - 1) : GetPartition(id)
    \/ \E id \in 0..(RECORD_COUNT - 1) : GetPartitionType(id)
    \/ \E id \in 0..(RECORD_COUNT - 1) : IsPartitionBootable(id)
    \/ DropPartition
    \/ \E n \in 0..MaxBuf : Read(n)
    \/ \E n \in 0..MaxBuf : Write(n)
    \/ Flush
    \/ \E origin \in Origins : \E off \in SeekOffsets(origin, PartLen) : Seek(origin, off)

Spec == Init /\ [][Next]_vars

\* The program together with the bounds of full-width records.
NextWide ==
    \/ Next
    \/ RecordBounds

SpecWide == Init /\ [][NextWide]_vars

\* =================================================================== claims
\* The last call was a read or a write through the window.
LastIsTransfer == last.op \in {"read", "write"}

\* C1: after any sequence of seek, read and write calls the window cursor
\* satisfies 0 <= pos <= length, and every value a seek returns lies in
\* [0, length].
C1_CursorInRange ==
    winOpen =>
        /\ 0 <= pos /\ pos <= PartLen
        /\ (last.op = "seek" /\ last.res = "ok") =>
               (0 <= last.val /\ last.val <= PartLen)

\* A seek from the start beyond the end of a non-empty window returned, and a
\* read clamped at the end was made.
C1_Witness_SeekPastEnd ==
    /\ winOpen /\ PartLen > 0
    /\ last.op = "seek" /\ last.res = "ok"
    /\ last.origin = "Start" /\ last.off > PartLen
    /\ last.val = PartLen /\ pos = PartLen

\* C2 (as claimed): every device byte a read or a write through the window
\* transfers lies at an absolute offset in [start_pos, end_pos).
C2_TransfersInsidePartition ==
    (winOpen /\ LastIsTransfer /\ last.cnt > 0) =>
        (start_pos <= last.at /\ last.at + last.cnt <= end_pos)

\* C3 (as claimed): a successful seek from the current position with offset
\* o sets the cursor to clamp(pos + o, 0, length), pos being the cursor before
\* the call, and returns it.
C3_SeekCurrentFromCursor ==
    (winOpen /\ last.op = "seek" /\ last.origin = "Current" /\ last.res = "ok") =>
        /\ pos = Clamp(last.oldPos + last.off, PartLen)
        /\ last.val = pos

\* C4: for every slot i and every relative offset r in [0, length_i), seeking
\* the window of slot i to r and reading returns the device bytes from
\* absolute offset relative_sector_i * 512 + r on; a read right after
\* GetPartition(i) returns the bytes at the partition's start.
C4_ReadTranslated ==
    (/\ winOpen /\ last.op = "read" /\ last.res = "ok" /\ last.cnt >= 1
     /\ last.after \in {"seek_start", "get_partition"}) =>
        LET r == last.oldPos
            abs == partitions[winSlot].relative_sector * BLOCK_SIZE + r
        IN  /\ last.after = "get_partition" => r = 0
            /\ \A i \in 1..last.cnt : last.data[i] = DiskByte(abs + i - 1)

\* A byte was read at a relative offset r > 0 the window was sought to, in a
\* partition that does not start at the start of the device.
C4_Witness_ReadAfterSeek ==
    /\ winOpen /\ last.op = "read" /\ last.res = "ok" /\ last.cnt = 1
    /\ last.after = "seek_start" /\ last.oldPos > 0 /\ start_pos > 0

\* The last call was a read or a write whose buffer was larger than
\* length - pos.
LastOverran == winOpen /\ LastIsTransfer /\ last.req > PartLen - last.oldPos

\* C5 (as claimed): a read or write whose buffer is larger than length - pos
\* and that returns a count returns length - pos, and leaves pos equal to
\* length.
C5_ClampedCountReturned ==
    (LastOverran /\ last.res = "ok") =>
        /\ last.val = PartLen - last.oldPos
        /\ pos = PartLen

\* C5 (amended): a read or write whose buffer is larger than length - pos
\* hands exactly length - pos bytes to the device and leaves pos equal to
\* length; the count returned is the one the device reports for them, which
\* is at most length - pos.
C5_ClampedRequestDelegated ==
    LastOverran =>
        /\ last.del = PartLen - last.oldPos
        /\ pos = PartLen
        /\ last.res = "ok" =>
               (last.val <= PartLen - last.oldPos /\ ioPos = last.at + last.val)

\* A buffer larger than the bytes left was clamped to them, and the device
\* transferred them all.
C5_Witness_ClampedTransfer ==
    /\ LastOverran
    /\ last.del > 0 /\ last.req > last.del
    /\ last.res = "ok" /\ last.val = last.del

\* The last call was a read or a write made with pos = length.
LastAtEnd == winOpen /\ LastIsTransfer /\ last.oldPos = PartLen

\* C6 (as claimed): with pos = length a read or write of any size returns
\* success with zero bytes transferred, leaves pos = length and moves no
\* device data.
C6_AtEndReturnsOkZero ==
    LastAtEnd =>
        /\ last.res = "ok" /\ last.val = 0
        /\ pos = PartLen
        /\ last.cnt = 0

\* C6 (amended): with pos = length a read or write of any size hands a
\* zero-length buffer to the device, leaves pos = length and moves no device
\* data or cursor; its result is the device's for that zero-length call,
\* Ok(0) unless the device itself fails.
C6_AtEndDelegatesNothing ==
    LastAtEnd =>
        /\ last.del = 0
        /\ pos = PartLen
        /\ last.cnt = 0 /\ last.data = << >> /\ ioPos = last.at
        /\ last.res \in {"ok", "err"}
        /\ last.res = "ok" => last.val = 0
        /\ last.res = "err" => faults > 0

\* A non-empty buffer was read or written at the end of a non-empty window,
\* and the call returned Ok(0).
C6_Witness_ZeroAtEnd ==
    /\ LastAtEnd /\ PartLen > 0
    /\ last.req > 0 /\ last.res = "ok" /\ last.val = 0

\* C7 (as claimed): a seek from the end with offset o sets the cursor to
\* clamp(length + o, 0, length) and returns it, for every offset; End(-1)
\* followed by a 1-byte read returns the last byte of the partition.
C7_SeekEndClamped ==
    /\ (winOpen /\ last.op = "seek" /\ last.origin = "End") =>
           /\ last.res # "panic"
           /\ last.res = "ok" =>
                  (pos = Clamp(PartLen + last.off, PartLen) /\ last.val = pos)
    /\ (/\ winOpen /\ last.op = "read" /\ last.after = "seek_end"
        /\ last.oldPos = PartLen - 1 /\ last.res = "ok" /\ last.cnt = 1) =>
           last.data[1] = DiskByte(end_pos - 1)

\* C8: on a freshly obtained window, writing N bytes (N <= length) at the
\* start, seeking back to the start and reading N bytes returns exactly the
\* bytes that were written.
C8_RoundTrip ==
    (/\ winOpen /\ rt.stage = 4
     /\ last.op = "read" /\ last.res = "ok" /\ last.val = last.req) =>
        last.data = rt.data

\* The write, seek and read of a round trip of more than one byte were made
\* in a partition whose bytes differed from those written.
C8_Witness_RoundTrip ==
    /\ winOpen /\ rt.stage = 4 /\ Len(rt.data) > 1
    /\ last.op = "read" /\ last.res = "ok" /\ last.val = last.req
    /\ \E i \in 1..Len(rt.data) : rt.data[i] # ImageByte(layout, start_pos + i - 1)

\* The last call was MBR::new, and its read of the record region returned.
LastIsNewRead == last.op = "new" /\ last.req = RECORD_LEN * RECORD_COUNT

\* C9 (as claimed): constructing the table fails whenever the device returns
\* fewer than 64 bytes for the read of the record region; no table is
\* produced.
C9_ShortReadFails ==
    (LastIsNewRead /\ last.cnt < RECORD_LEN * RECORD_COUNT) => mbr = "err"

\* C10 (as claimed): constructing the table over a record region in which a
\* record's system id has no PartitionType returns an error to the caller and
\* no table.
C10_UnknownTypeIsError ==
    (/\ LastIsNewRead /\ Len(last.data) = RECORD_LEN * RECORD_COUNT
     /\ \E i \in 0..(RECORD_COUNT - 1) : ~TypeConverts(RecordSlice(last.data, i))) =>
        (mbr = "err" /\ ~panicked)

\* The 16 bytes MBR::new decoded for slot i, and the bytes the device held
\* at that record when the table was constructed.
DecodedRecord(i) == RecordSlice(recBuf.bytes, i)

ImageRecord(i) == [j \in 1..RECORD_LEN |-> ImageByte(layout, RECORDS_START + RECORD_LEN * i + j - 1)]

\* The read of the record region filled the whole buffer.
WholeRegionRead == recBuf.cnt = RECORD_LEN * RECORD_COUNT

\* 512 times the value of the little-endian bytes b, as a u64 in limbs: the
\* bytes move up by one place and by one bit.
Times512(b) ==
    LET e == [i \in 0..7 |->
                 IF i = 0 THEN 0
                 ELSE IF i = 1 THEN (2 * b[1]) % 256
                 ELSE IF i <= 4 THEN (2 * b[i] + b[i - 1] \div 128) % 256
                 ELSE IF i = 5 THEN b[4] \div 128
                 ELSE 0]
    IN  [k \in 1..4 |-> e[2 * k - 2] + 256 * e[2 * k - 1]]

\* C11: the length of the window GetPartition(i) returns is total_sectors_i *
\* 512, total_sectors_i being the little-endian value of bytes 12..16 of
\* record i, which are the device bytes at 0x1BE + 16 * i + 12 onward.
C11_LengthIsTotalSectors ==
    /\ last.op = "record_bounds" => last.len = Times512(last.total)
    /\ winOpen =>
        LET rec == DecodedRecord(winSlot)
            total == rec[13] + 256 * rec[14] + 65536 * rec[15] + 16777216 * rec[16]
        IN  /\ PartLen = total * 512
            /\ WholeRegionRead =>
                   \A j \in 13..16 : rec[j] = ImageRecord(winSlot)[j]

\* A window of more than one sector, not at the start of the device, was
\* obtained from a table whose record region was read whole.
C11_Witness_LongWindow ==
    /\ winOpen /\ WholeRegionRead
    /\ start_pos > 0 /\ PartLen > 512
    /\ last.op = "get_partition" /\ last.res = "ok"

\* C12: at most one Partition window over the table's device exists at any
\* time: GetPartition returns a window only when none is alive.
C12_OneWindowAtATime ==
    [][(last'.op = "get_partition" /\ last'.res = "ok" /\ calls' = calls + 1)
          => ~winOpen]_vars

\* A window was obtained for another slot after a window that wrote to the
\* device had been released.
C12_Witness_SecondWindow ==
    /\ winOpen /\ last.op = "get_partition" /\ last.res = "ok"
    /\ DOMAIN written # {}
    /\ \E a \in DOMAIN written : a < start_pos \/ a >= end_pos

\* C13: IsBootable(i) is true if and only if byte 0 of record i is 0x80.
C13_BootableIff0x80 ==
    last.op = "is_partition_bootable" =>
        /\ last.flag = (DecodedRecord(last.slot)[1] = 128)
        /\ WholeRegionRead => DecodedRecord(last.slot)[1] = ImageRecord(last.slot)[1]

\* IsBootable reported false for a record whose indicator byte is neither
\* 0x00 nor 0x80.
C13_Witness_OtherIndicator ==
    /\ last.op = "is_partition_bootable" /\ last.flag = FALSE
    /\ DecodedRecord(last.slot)[1] \notin {0, 128}

\* C14 (as claimed): whenever a read or a write is delegated to the device,
\* the device cursor is at start_pos + pos, pos being the cursor before the
\* call, also after short transfers and failed calls.
C14_CursorInSync ==
    (winOpen /\ LastIsTransfer) => last.at = start_pos + last.oldPos

\* C15: a read or a write advances pos by min(buffer size, length - pos)
\* before the device is called, whatever count or error the device returns.
C15_AdvanceByClampedRequest ==
    (winOpen /\ LastIsTransfer) =>
        pos = last.oldPos + Min(last.req, PartLen - last.oldPos)

\* The device failed or transferred short on a non-empty request, and pos
\* went past what was transferred.
C15_Witness_AdvancePastTransfer ==
    /\ winOpen /\ LastIsTransfer /\ last.del > 0
    /\ last.res = "err" \/ last.val < last.del
    /\ pos = last.oldPos + last.del

\* C16 (as claimed): a seek whose device seek fails leaves pos at its old
\* value.
C16_FailedSeekKeepsPos ==
    (winOpen /\ last.op = "seek" /\ last.res = "err") => pos = last.oldPos

\* C17 (as claimed): for every offset, a seek from the current position or
\* from the end computes its target without overflow and without wrapping;
\* End(i64::MAX) yields the length.
C17_SeekSumNeverOverflows ==
    (last.op = "seek" /\ last.origin \in {"Current", "End"}) =>
        /\ last.res # "panic"
        /\ (winOpen /\ last.res = "ok") =>
               /\ last.val = Clamp(SeekSum(last.origin, last.off, last.oldPos, PartLen),
                                   PartLen)
               /\ (last.origin = "End" /\ last.off = I64_MAX) => last.val = PartLen

\* C18: a successful GetPartition(i) returns a window for slot i with pos 0
\* and the device cursor at the start of partition i, whatever earlier
\* windows did; when the initial seek fails there is no window.
C18_FreshWindow ==
    last.op = "get_partition" =>
        IF last.res = "ok"
        THEN LET rec == DecodedRecord(last.slot)
                 first == rec[9] + 256 * rec[10] + 65536 * rec[11] + 16777216 * rec[12]
             IN  /\ winOpen /\ winSlot = last.slot
                 /\ pos = 0
                 /\ ioPos = first * 512
        ELSE ~winOpen

\* A window was obtained after an earlier window had written to the device
\* and a device call had failed or transferred short.
C18_Witness_AfterEarlierWindow ==
    /\ last.op = "get_partition" /\ last.res = "ok"
    /\ DOMAIN written # {} /\ faults >= 1
    /\ WholeRegionRead
    /\ ioPos > 0

\* The descriptors decoded when the table was constructed.
Constructed == [i \in 0..(RECORD_COUNT - 1) |-> from_bytes(DecodedRecord(i))]

\* The device byte of record i at offset j differs from the byte decoded at
\* construction.
RecordOverwritten(i, j) ==
    DiskByte(RECORDS_START + RECORD_LEN * i + j) # DecodedRecord(i)[j + 1]

\* C19: the four descriptors are fixed at construction: what
\* GetPartitionType, IsBootable and GetPartition report is what was decoded
\* then, also after a window write overwrote the record region on the device.
C19_DescriptorsFixed ==
    mbr = "ok" =>
        /\ partitions = Constructed
        /\ last.op = "get_partition_type" =>
               last.val = Constructed[last.slot].partition_type
        /\ last.op = "is_partition_bootable" =>
               last.flag = Constructed[last.slot].boot_flag
        /\ winOpen =>
               /\ start_pos = Constructed[winSlot].relative_sector * 512
               /\ PartLen = Constructed[winSlot].total_sectors * 512

\* IsBootable was asked about a record whose indicator byte a window write
\* had overwritten on the device.
C19_Witness_RecordOverwritten ==
    /\ mbr = "ok" /\ WholeRegionRead
    /\ last.op = "is_partition_bootable"
    /\ RecordOverwritten(last.slot, BOOT_FLAG_OFFSET)
    /\ (DiskByte(RECORDS_START + RECORD_LEN * last.slot) = 128) # last.flag

\* a <= b, for u64s in limbs.
WideLeq(a, b) == ~WideSub(b, a).overflow

\* C20: for all 32-bit values of the relative-sector and total-sectors
\* fields, start_pos = relative_sector * 512 and end_pos = start_pos +
\* total_sectors * 512 are computed without 64-bit overflow and start_pos <=
\* end_pos, so len() and available never underflow in a reachable state.
C20_BoundsNeverOverflow ==
    /\ last.op = "record_bounds" =>
           /\ ~last.overflow
           /\ last.start = Times512(last.rel)
           /\ WideLeq(last.start, last.end)
           /\ WideSub(last.end, Times512(last.total)).val = last.start
    /\ winOpen =>
           /\ start_pos <= end_pos /\ end_pos <= U64_MAX
           /\ pos >= 0 /\ pos <= PartLen
    /\ (winOpen /\ LastIsTransfer) => Available(PartLen, last.oldPos) >= 0

\* The bounds were computed for a record whose two fields hold 0xFFFFFFFF.
C20_Witness_LargestFields ==
    /\ last.op = "record_bounds"
    /\ last.rel = << 255, 255, 255, 255 >>
    /\ last.total = << 255, 255, 255, 255 >>

====
